---- MODULE Spec2Model ----
(***************************************************************************)
(* Model of nvme-util.py: an inspector that shells out to nvme-cli, parses *)
(* its JSON output and prints a report per NVMe device.                    *)
(*                                                                         *)
(* Two specifications are given.  Spec is a run of main(): one action per  *)
(* external command the program issues, the command's outcome being the    *)
(* environment's choice.  SpecCalls applies the helper functions           *)
(* (run_json, run_cmd, human_bytes, detect_nvme_devices, get_fw_log) to    *)
(* arguments and command outcomes drawn from bounded sets.                 *)
(***************************************************************************)
EXTENDS Integers, Sequences, FiniteSets, TLC

VARIABLES
    pc,         \* position of main(): see the actions below
    argv,       \* the value given to --self-test on the command line
    args,       \* args.self_test after parse_args
    installed,  \* whether shutil.which("nvme") finds the tool
    devices,    \* main's list of device records
    idx,        \* 1-based index of the device the for loop is at
    smart,      \* print_device_info's local: smart-log result
    err,        \* print_device_info's local: error-log result
    fw_slots,   \* print_device_info's local: get_fw_log result
    st,         \* print_device_info's local: self-test status result
    reply,      \* the outcome the environment gave to each command of this device
    cmds,       \* every external command issued so far, in order
    out,        \* every line printed so far, in order
    call,       \* SpecCalls: the function applied and its arguments
    ret         \* SpecCalls: what the call returned

vars == <<pc, argv, args, installed, devices, idx, smart, err, fw_slots, st,
          reply, cmds, out, call, ret>>

(***************************************************************************)
(* Bounds of the model.                                                    *)
(***************************************************************************)
\* longest "fw_log" list drawn in SpecCalls
MaxFwEntries == 3
\* longest "Devices" list drawn in SpecCalls
MaxListed == 2
\* most base-1024 digits of the ordinary byte counts drawn in SpecCalls
MaxDigits == 7

(***************************************************************************)
(* Python / JSON values.  Every value is a record [t, v]: t is the Python  *)
(* type.  An int's v is its magnitude as little-endian base-1024 digits    *)
(* with no leading zero digit (0 is <<>>), so that byte counts beyond any  *)
(* machine width can be drawn; a negative int has t = "negint".            *)
(***************************************************************************)
None == [t |-> "NoneType", v |-> "None"]
JBool(b) == [t |-> "bool", v |-> b]
JInt(mag) == [t |-> "int", v |-> mag]
JNeg(mag) == [t |-> "negint", v |-> mag]
JFloat(s) == [t |-> "float", v |-> s]
JStr(s) == [t |-> "str", v |-> s]
JList(s) == [t |-> "list", v |-> s]
JDict(d) == [t |-> "dict", v |-> d]

\* a dict with no key
EmptyDict == JDict(<<>>)

\* bool(x)
Truthy(x) ==
    CASE x.t = "NoneType" -> FALSE
      [] x.t = "bool" -> x.v
      [] x.t = "int" -> x.v # <<>>
      [] x.t = "negint" -> TRUE
      [] x.t = "float" -> x.v # "0.0"
      [] x.t = "str" -> x.v # ""
      [] x.t = "list" -> x.v # <<>>
      [] x.t = "dict" -> DOMAIN x.v # {}

\* a or b
Or(a, b) == IF Truthy(a) THEN a ELSE b

\* d.get(k, default) on a dict d
Get(d, k, default) == IF k \in DOMAIN d.v THEN d.v[k] ELSE default

\* whether x has a .get method (only a dict has)
HasGet(x) == x.t = "dict"

\* whether "k in x" raises TypeError (x is not a container)
InRaises(x) == x.t \in {"NoneType", "bool", "int", "negint", "float"}

\* "k in x" for a container x.  For a str it is the substring test; of the
\* strings drawn in this model only k itself contains k.
In(k, x) ==
    CASE x.t = "dict" -> k \in DOMAIN x.v
      [] x.t = "list" -> \E j \in 1..Len(x.v) : x.v[j] = JStr(k)
      [] x.t = "str" -> x.v = k

\* whether x["k"] with a str key raises (x is not subscriptable by a str, or
\* the key is missing)
SubscriptRaises(x, k) == x.t # "dict" \/ k \notin DOMAIN x.v

\* whether "for d in x" raises TypeError
IterRaises(x) == x.t \in {"NoneType", "bool", "int", "negint", "float"}

RECURSIVE SetToSeq(_)
\* the elements of a finite set, in some order
SetToSeq(S) ==
    IF S = {} THEN <<>>
    ELSE LET e == CHOOSE e \in S : TRUE IN <<e>> \o SetToSeq(S \ {e})

\* the items "for d in x" yields: a list's elements, a dict's keys, a str's
\* characters (each a str; the model keeps the str whole as its one item)
Iter(x) ==
    CASE x.t = "list" -> x.v
      [] x.t = "dict" -> [j \in 1..Cardinality(DOMAIN x.v) |-> JStr(SetToSeq(DOMAIN x.v)[j])]
      [] x.t = "str" -> IF x.v = "" THEN <<>> ELSE <<x>>

(* Printed lines and commands.                                             *)
(* Printed lines and commands.                                              *)
(***************************************************************************)
\* one line of print(): the literal text of the f-string and the values
\* substituted into it, in order
Line(text, values) == [text |-> text, values |-> values]

\* str(x) inside an f-string: None prints as the text "None"
Fmt(x) == IF x = None THEN JStr("None") ELSE x

\* a command line argument that is a str literal
A(s) == JStr(s)

\* subprocess.run raises TypeError when an argument is not a str
BadArgs(cmd) == \E j \in 1..Len(cmd) : cmd[j].t # "str"

(***************************************************************************)
(* Outcomes of subprocess.run(cmd, capture_output=True, text=True,         *)
(* check=True): the environment's answer to a command.                     *)
(***************************************************************************)
\* the executable is not found: FileNotFoundError
NotFound == [kind |-> "FileNotFoundError", stdout |-> None]
\* non-zero exit status: CalledProcessError
NonZero == [kind |-> "CalledProcessError", stdout |-> None]
\* a non-str argument: TypeError
BadArg == [kind |-> "TypeError", stdout |-> None]
\* exit status 0 with standard output that is the JSON text of j
OkJson(j) == [kind |-> "ok", stdout |-> [fmt |-> "json", val |-> j]]
\* exit status 0 with standard output that is not JSON
OkText(s) == [kind |-> "ok", stdout |-> [fmt |-> "text", val |-> s]]

Failures == {NotFound, NonZero}

(***************************************************************************)
(* Helpers (lines 10-35).  A function's result is a record: raised (an     *)
(* exception left the function), value (what it returned) and, for the     *)
(* functions that print, printed (the lines, in order).                    *)
(***************************************************************************)
\* the exception json.loads raises on text that is not JSON
JSONDecodeError == "JSONDecodeError"

\* what the try block of run_json raises, or "none"
RunJsonException(cmd, outcome) ==
    IF BadArgs(cmd) THEN "TypeError"
    ELSE IF outcome.kind # "ok" THEN outcome.kind
    ELSE IF outcome.stdout.fmt # "json" THEN JSONDecodeError
    ELSE "none"

\* the line "Error running {cmd}: {e}"
ErrorLine(cmd, e) == Line("Error running {cmd}: {e}", <<JList(cmd), JStr(e)>>)

\* run_json with the JSON decode error left uncaught
run_json_uncaught(cmd, outcome) ==
    LET e == RunJsonException(cmd, outcome) IN
    IF e = "none"
    THEN [raised |-> FALSE, value |-> outcome.stdout.val, printed |-> <<>>]
    ELSE IF e = JSONDecodeError
    THEN [raised |-> TRUE, value |-> None, printed |-> <<>>]
    ELSE [raised |-> FALSE, value |-> None, printed |-> <<ErrorLine(cmd, e)>>]

\* run_json(cmd), given the outcome of the subprocess
run_json(cmd, outcome) ==
    LET e == RunJsonException(cmd, outcome) IN
    IF e = "none"
    THEN [raised |-> FALSE, value |-> outcome.stdout.val, printed |-> <<>>]
    ELSE [raised |-> FALSE, value |-> None, printed |-> <<ErrorLine(cmd, e)>>]

\* s.strip(), on the standard outputs drawn in this model
Strip(s) ==
    CASE s = "\n" -> ""
      [] s = "Short Device self-test started\n" -> "Short Device self-test started"
      [] OTHER -> s

\* what the try block of run_cmd raises, or "none"
RunCmdException(cmd, outcome) ==
    IF BadArgs(cmd) THEN "TypeError"
    ELSE IF outcome.kind # "ok" THEN outcome.kind
    ELSE "none"

\* run_cmd that reports a failure without returning None
run_cmd_partial(cmd, outcome) ==
    LET e == RunCmdException(cmd, outcome) IN
    IF e = "none"
    THEN [raised |-> FALSE, value |-> JStr(Strip(outcome.stdout.val)), printed |-> <<>>]
    ELSE [raised |-> FALSE, value |-> JStr(""), printed |-> <<ErrorLine(cmd, e)>>]

\* run_cmd(cmd), given the outcome of the subprocess (whose output is text)
run_cmd(cmd, outcome) ==
    LET e == RunCmdException(cmd, outcome) IN
    IF e = "none"
    THEN [raised |-> FALSE, value |-> JStr(Strip(outcome.stdout.val)), printed |-> <<>>]
    ELSE [raised |-> FALSE, value |-> None, printed |-> <<ErrorLine(cmd, e)>>]

\* units of human_bytes
units == <<"B", "KB", "MB", "GB", "TB", "PB">>

\* isinstance(n, int): bool is a subclass of int
IsInt(n) == n.t \in {"int", "negint", "bool"}

\* the magnitude of an int (True is 1, False is 0)
Mag(n) == IF n.t = "bool" THEN (IF n.v THEN <<1>> ELSE <<>>) ELSE n.v

\* 2^1024 - 2^970, the least int float() cannot convert: 15 * 1024^102 +
\* 1023 * (1024^97 + ... + 1024^101)
FloatLimit == [k \in 1..103 |-> IF k = 103 THEN 15 ELSE IF k >= 98 THEN 1023 ELSE 0]

RECURSIVE GeDigits(_, _, _)
\* a >= b for magnitudes of the same length, compared from digit k down
GeDigits(a, b, k) ==
    IF k = 0 THEN TRUE
    ELSE IF a[k] # b[k] THEN a[k] > b[k]
    ELSE GeDigits(a, b, k - 1)

\* float(n) raises OverflowError: n rounds to a double beyond the largest
FloatOverflows(mag) ==
    \/ Len(mag) > Len(FloatLimit)
    \/ Len(mag) = Len(FloatLimit) /\ GeDigits(mag, FloatLimit, Len(mag))

RECURSIVE hb_loop(_, _)
\* the while loop of human_bytes.  size is kept as the digits of its whole
\* part: size >= 1024 iff it has two digits or more, size /= 1024.0 drops the
\* lowest (the rounding of float(n) to 53 bits never moves a value across a
\* power of 1024 up to 1024^5).  i counts from 1, as units is indexed here.
hb_loop(size, i) ==
    IF Len(size) >= 2 /\ i < Len(units)
    THEN hb_loop(Tail(size), i + 1)
    ELSE [size |-> size, i |-> i]

\* the str f"{size:.1f}{units[i]}": the whole part of size and the index of
\* the unit (its digit after the point is not modelled)
SizeStr(size, i) == [t |-> "sizestr", v |-> [whole |-> size, unit |-> i]]

\* human_bytes(n)
human_bytes(n) ==
    IF ~IsInt(n) \/ n.t = "negint"
    THEN [raised |-> FALSE, value |-> JStr("Unknown")]
    ELSE IF FloatOverflows(Mag(n))
    THEN [raised |-> TRUE, value |-> None]
    ELSE LET r == hb_loop(Mag(n), 1) IN
         [raised |-> FALSE, value |-> SizeStr(r.size, r.i)]

(***************************************************************************)
(* NVMe functions (lines 40-85).  Their results also carry cmds, the       *)
(* external commands they issued.                                          *)
(***************************************************************************)
\* ["nvme", "list", "-o", "json"]
ListCmd == <<A("nvme"), A("list"), A("-o"), A("json")>>
\* ["nvme", "smart-log", device, "-o", "json"]
SmartCmd(device) == <<A("nvme"), A("smart-log"), device, A("-o"), A("json")>>
\* ["nvme", "error-log", device, "-o", "json"]
ErrorCmd(device) == <<A("nvme"), A("error-log"), device, A("-o"), A("json")>>
\* ["nvme", "fw-log", device, "-o", "json"]
FwCmd(device) == <<A("nvme"), A("fw-log"), device, A("-o"), A("json")>>
\* ["nvme", "device-self-test", device, "-n", "0", "-o", "json"]
StatusCmd(device) ==
    <<A("nvme"), A("device-self-test"), device, A("-n"), A("0"), A("-o"), A("json")>>
\* ["nvme", "device-self-test", device, "-s", test_code]
StartCmd(device, test_code) ==
    <<A("nvme"), A("device-self-test"), device, A("-s"), A(test_code)>>

\* the line printed when shutil.which finds no nvme
NotInstalledLine == Line("nvme-cli not installed. Run: sudo apt install nvme-cli", <<>>)

\* an exception left the function: nothing is returned
Raise(printed, issued) ==
    [raised |-> TRUE, value |-> None, printed |-> printed, cmds |-> issued]

\* a normal return
Return(value, printed, issued) ==
    [raised |-> FALSE, value |-> value, printed |-> printed, cmds |-> issued]

\* the record with a capacity that falls back only when PhysicalSize is absent
DeviceRecordIfAbsent(d) ==
    [device |-> Get(d, "DevicePath", None),
     model |-> Get(d, "ModelNumber", JStr("Unknown")),
     serial |-> Get(d, "SerialNumber", JStr("Unknown")),
     firmware |-> Get(d, "Firmware", JStr("Unknown")),
     capacity_bytes |-> Get(d, "PhysicalSize", Get(d, "UsedBytes", None))]

\* the record detect_nvme_devices appends for the entry d
DeviceRecord(d) ==
    [device |-> Get(d, "DevicePath", None),
     model |-> Get(d, "ModelNumber", JStr("Unknown")),
     serial |-> Get(d, "SerialNumber", JStr("Unknown")),
     firmware |-> Get(d, "Firmware", JStr("Unknown")),
     capacity_bytes |-> Or(Get(d, "PhysicalSize", None), Get(d, "UsedBytes", None))]

\* lines 45-56 of detect_nvme_devices, data being what run_json returned
DetectFrom(data, printed) ==
    LET issued == <<ListCmd>> IN
    IF ~Truthy(data) THEN Return(<<>>, printed, issued)
    ELSE IF InRaises(data) THEN Raise(printed, issued)
    ELSE IF ~In("Devices", data) THEN Return(<<>>, printed, issued)
    ELSE IF SubscriptRaises(data, "Devices") THEN Raise(printed, issued)
    ELSE LET listed == data.v["Devices"] IN
         IF IterRaises(listed) THEN Raise(printed, issued)
         ELSE LET items == Iter(listed) IN
              IF \E j \in 1..Len(items) : ~HasGet(items[j])
              THEN Raise(printed, issued)
              ELSE Return([j \in 1..Len(items) |-> DeviceRecord(items[j])],
                          printed, issued)

\* detect_nvme_devices that does not look for the tool first
detect_nvme_devices_nowhich(which, outcome) ==
    LET r == run_json(ListCmd, outcome) IN
    IF r.raised THEN Raise(r.printed, <<ListCmd>>)
    ELSE DetectFrom(r.value, r.printed)

\* detect_nvme_devices(), given what shutil.which("nvme") finds and the
\* outcome of the list command
detect_nvme_devices(which, outcome) ==
    IF ~which THEN Return(<<>>, <<NotInstalledLine>>, <<>>)
    ELSE LET r == run_json(ListCmd, outcome) IN
         IF r.raised THEN Raise(r.printed, <<ListCmd>>)
         ELSE DetectFrom(r.value, r.printed)

\* get_smart_info(device)
get_smart_info(device, outcome) == run_json(SmartCmd(device), outcome)

\* get_error_log(device)
get_error_log(device, outcome) == run_json(ErrorCmd(device), outcome)

\* get_self_test_log(device)
get_self_test_log(device, outcome) == run_json(StatusCmd(device), outcome)

\* a small int as a value: k is in 0..1023
Small(k) == JInt(IF k = 0 THEN <<>> ELSE <<k>>)

\* the slot numbered by its place among the slots returned
FwSlotReturned(i, s, slots) ==
    [slot |-> Small(Len(slots) + 1),
     revision |-> Get(s, "revision", JStr("Unknown")),
     valid |-> Get(s, "valid", JStr("Unknown")),
     active |-> Get(s, "active", JStr("Unknown"))]

\* the slot get_fw_log appends for the entry s at index i (from 0) of
\* fw["fw_log"], slots being those appended so far
FwSlot(i, s, slots) ==
    [slot |-> Small(i + 1),
     revision |-> Get(s, "revision", JStr("Unknown")),
     valid |-> Get(s, "valid", JStr("Unknown")),
     active |-> Get(s, "active", JStr("Unknown"))]

RECURSIVE fw_loop(_, _, _)
\* the for loop of get_fw_log from index i (from 0) on
fw_loop(entries, i, slots) ==
    IF i >= Len(entries) THEN slots
    ELSE LET s == entries[i + 1] IN
         fw_loop(entries, i + 1,
                 IF s.t = "dict" THEN Append(slots, FwSlot(i, s, slots)) ELSE slots)

\* get_fw_log(device)
get_fw_log(device, outcome) ==
    LET r == run_json(FwCmd(device), outcome)
        fw == r.value
        issued == <<FwCmd(device)>>
    IN  IF r.raised THEN Raise(r.printed, issued)
        ELSE IF ~Truthy(fw) THEN Return(<<>>, r.printed, issued)
        ELSE IF InRaises(fw) THEN Raise(r.printed, issued)
        ELSE IF ~In("fw_log", fw) THEN Return(<<>>, r.printed, issued)
        ELSE IF SubscriptRaises(fw, "fw_log") THEN Raise(r.printed, issued)
        ELSE IF fw.v["fw_log"].t # "list" THEN Return(<<>>, r.printed, issued)
        ELSE Return(fw_loop(fw.v["fw_log"].v, 0, <<>>), r.printed, issued)

\* test_code of start_self_test
TestCode(mode) == IF mode = JStr("short") THEN "1" ELSE "2"

\* start_self_test(device, mode)
start_self_test(device, mode, outcome) ==
    LET cmd == StartCmd(device, TestCode(mode))
        r == run_cmd(cmd, outcome)
    IN  [raised |-> r.raised, value |-> r.value,
         printed |-> <<Line("Starting {mode} self-test on {device}...",
                            <<Fmt(mode), Fmt(device)>>)>> \o r.printed,
         cmds |-> <<cmd>>]

(***************************************************************************)
(* SpecCalls: each helper applied once to drawn arguments.                 *)
(***************************************************************************)
\* digits of the byte counts drawn: the least, one, the greatest
Digits == {0, 1, 1023}

\* the magnitudes of at most n digits over Digits
Mags(n) ==
    UNION {{m \in [1..len -> Digits] : len > 0 => m[len] # 0} : len \in 0..n}

\* 2^1024 - 2^970 - 1, the greatest int float() converts
FloatLimitPred ==
    [k \in 1..103 |-> IF k = 103 THEN 15 ELSE IF k = 98 THEN 1022 ELSE 1023]

\* 2^1024 = 16 * 1024^102
TwoTo1024 == [k \in 1..103 |-> IF k = 103 THEN 16 ELSE 0]

\* the arguments human_bytes is applied to
HumanBytesArgs ==
    {JInt(m) : m \in Mags(MaxDigits) \cup {FloatLimitPred, FloatLimit, TwoTo1024}}
    \cup {JNeg(<<5>>), JStr("x"), None, JFloat("1.5"), JBool(TRUE), JBool(FALSE)}

\* device paths
Dev0 == JStr("/dev/nvme0")
Dev1 == JStr("/dev/nvme1")

\* keys of a "Devices" entry that the drawn entries have or lack
EntryKeys == {"ModelNumber", "SerialNumber", "Firmware", "PhysicalSize", "UsedBytes"}

\* values of PhysicalSize drawn: zero, a size, null
PhysicalSizes == {Small(0), Small(1000), None}

\* an entry with DevicePath, the keys K and PhysicalSize p
Entry(K, p) ==
    JDict([k \in K \cup {"DevicePath"} |->
        CASE k = "DevicePath" -> Dev0
          [] k = "ModelNumber" -> JStr("X")
          [] k = "SerialNumber" -> JStr("S123")
          [] k = "Firmware" -> JStr("1.0")
          [] k = "PhysicalSize" -> p
          [] k = "UsedBytes" -> Small(500)])

\* the sets of keys the drawn entries have: none, all, each key alone, all
\* but each key, the two capacity keys
EntryKeySets ==
    {{}, EntryKeys, {"PhysicalSize", "UsedBytes"}}
    \cup {{k} : k \in EntryKeys}
    \cup {EntryKeys \ {k} : k \in EntryKeys}

\* the entries drawn, one of them without DevicePath
Entries ==
    {Entry(K, p) : K \in EntryKeySets, p \in PhysicalSizes}
    \cup {JDict([ModelNumber |-> JStr("X")])}

\* the lists of at most n entries
EntryLists(n) == UNION {[1..len -> Entries] : len \in 0..n}

\* values of "Devices" that are not a sequence of mappings
BadDevices ==
    {None, Small(5), JStr("abc"), JStr(""), EmptyDict, JDict([a |-> Small(1)]),
     JList(<<Small(5)>>), JList(<<Entry({}, None), JStr("x")>>)}

\* the JSON values the list command is made to print
ListOutputs ==
    {JDict([Devices |-> JList(l)]) : l \in EntryLists(MaxListed)}
    \cup {JDict([Devices |-> x]) : x \in BadDevices}
    \cup {None, EmptyDict, JDict([Other |-> JList(<<>>)]), Small(5), Small(0),
          JBool(TRUE), JStr("garbage"), JStr("Devices"), JStr(""),
          JList(<<>>), JList(<<JStr("x")>>), JList(<<JStr("Devices")>>)}

\* the entries of "fw_log" drawn: records and entries that are no record
FwEntries ==
    {JDict([revision |-> JStr("1.0"), valid |-> JBool(TRUE), active |-> JBool(TRUE)]),
     JDict([revision |-> JStr("2.0")]), EmptyDict, JStr("garbage"), None}

\* the JSON values the fw-log command is made to print
FwOutputs ==
    {JDict([fw_log |-> JList(l)]) :
        l \in UNION {[1..len -> FwEntries] : len \in 0..MaxFwEntries}}
    \cup {JDict([fw_log |-> None]), JDict([fw_log |-> EmptyDict]),
          JDict([fw_log |-> JStr("x")]), JDict([other |-> JList(<<>>)]),
          None, EmptyDict, Small(5), JStr("fw_log"), JStr("garbage"),
          JList(<<JStr("fw_log")>>), JList(<<JStr("x")>>)}

\* text on standard output that is not JSON
Garbage == OkText("not json")

\* the commands run_json and run_cmd are applied to
RunCmds == {ListCmd, SmartCmd(Dev0), ErrorCmd(Dev1), FwCmd(Dev0), StatusCmd(Dev1),
            SmartCmd(None), StartCmd(Dev0, "1"), StartCmd(Dev1, "2")}

\* the outcomes drawn for run_json
RunJsonOutcomes ==
    Failures \cup {Garbage}
    \cup {OkJson(j) : j \in {None, EmptyDict, Small(5), JList(<<>>), JStr("text"),
                             JDict([temperature |-> Small(300)])}}

\* the outcomes drawn for run_cmd
RunCmdOutcomes ==
    Failures \cup {OkText(""), OkText("\n"), OkText("Short Device self-test started\n")}

\* a call: the function, its argument, what shutil.which finds, the outcome
\* of the command it issues
Call(fn, arg, which, outcome) ==
    [fn |-> fn, arg |-> arg, which |-> which, outcome |-> outcome]

Calls ==
    {Call("human_bytes", n, TRUE, NotFound) : n \in HumanBytesArgs}
    \cup {Call("run_json", JList(c), TRUE, o) : c \in RunCmds, o \in RunJsonOutcomes}
    \cup {Call("run_cmd", JList(c), TRUE, o) : c \in RunCmds, o \in RunCmdOutcomes}
    \cup {Call("detect_nvme_devices", None, w, o) :
            w \in BOOLEAN, o \in Failures \cup {Garbage}}
    \cup {Call("detect_nvme_devices", None, TRUE, OkJson(j)) : j \in ListOutputs}
    \cup {Call("detect_nvme_devices", None, FALSE, OkJson(EmptyDict))}
    \cup {Call("get_fw_log", d, TRUE, o) :
            d \in {Dev0, None}, o \in Failures \cup {Garbage}}
    \cup {Call("get_fw_log", Dev0, TRUE, OkJson(j)) : j \in FwOutputs}

\* no call, or a call not yet returned
NoReturn == [done |-> FALSE, raised |-> FALSE, value |-> None,
             printed |-> <<>>, cmds |-> <<>>]

\* the call has returned (or raised) r
Returned(r, printed, issued) ==
    [done |-> TRUE, raised |-> r.raised, value |-> r.value,
     printed |-> printed, cmds |-> issued]

\* main() is not running in SpecCalls
Idle ==
    /\ pc = "idle" /\ argv = None /\ args = None /\ installed = TRUE
    /\ devices = <<>> /\ idx = 0
    /\ smart = None /\ err = None /\ fw_slots = <<>> /\ st = None
    /\ reply = <<>> /\ cmds = <<>> /\ out = <<>>

InitCalls == Idle /\ call \in Calls /\ ret = NoReturn

mainVars == <<pc, argv, args, installed, devices, idx, smart, err, fw_slots, st,
              reply, cmds, out>>

CallRunJson ==
    /\ call.fn = "run_json" /\ ~ret.done
    /\ LET r == run_json(call.arg.v, call.outcome) IN
       ret' = Returned(r, r.printed, <<call.arg.v>>)
    /\ UNCHANGED <<mainVars, call>>

CallRunCmd ==
    /\ call.fn = "run_cmd" /\ ~ret.done
    /\ LET r == run_cmd(call.arg.v, call.outcome) IN
       ret' = Returned(r, r.printed, <<call.arg.v>>)
    /\ UNCHANGED <<mainVars, call>>

CallHumanBytes ==
    /\ call.fn = "human_bytes" /\ ~ret.done
    /\ ret' = Returned(human_bytes(call.arg), <<>>, <<>>)
    /\ UNCHANGED <<mainVars, call>>

CallDetect ==
    /\ call.fn = "detect_nvme_devices" /\ ~ret.done
    /\ LET r == detect_nvme_devices(call.which, call.outcome) IN
       ret' = Returned(r, r.printed, r.cmds)
    /\ UNCHANGED <<mainVars, call>>

CallGetFwLog ==
    /\ call.fn = "get_fw_log" /\ ~ret.done
    /\ LET r == get_fw_log(call.arg, call.outcome) IN
       ret' = Returned(r, r.printed, r.cmds)
    /\ UNCHANGED <<mainVars, call>>

NextCalls ==
    \/ CallRunJson
    \/ CallRunCmd
    \/ CallHumanBytes
    \/ CallDetect
    \/ CallGetFwLog

SpecCalls == InitCalls /\ [][NextCalls]_vars

(***************************************************************************)
(* Properties of the helpers, checked under SpecCalls.                     *)
(***************************************************************************)
\* the call drew a subprocess that failed, or output run_json cannot parse
CallFailed ==
    \/ call.outcome.kind # "ok"
    \/ \E j \in 1..Len(call.arg.v) : call.arg.v[j].t # "str"
    \/ call.fn = "run_json" /\ call.outcome.stdout.fmt # "json"

\* C7: run_json and run_cmd never let an exception out; when the execution
\* fails (executable not found, non-zero exit status, or for run_json output
\* that is not JSON) they return None and print exactly one line, which names
\* the command.
RunnerContainsFailure ==
    (ret.done /\ call.fn \in {"run_json", "run_cmd"}) =>
        /\ ~ret.raised
        /\ CallFailed =>
            /\ ret.value = None
            /\ Len(ret.printed) = 1
            /\ ret.printed[1].text = "Error running {cmd}: {e}"
            /\ ret.printed[1].values[1] = call.arg

\* C7 witness: the output of a successful command did not parse, and
\* run_json returned None after one diagnostic line.
RunnerFailureSeen ==
    /\ ret.done /\ call.fn = "run_json" /\ call.outcome = Garbage
    /\ call.arg = JList(ListCmd)
    /\ ret.value = None /\ Len(ret.printed) = 1

\* the number of base-1024 digits of the non-negative int n
NumDigits(n) == Len(n.v)

\* C9: for every non-negative int n human_bytes returns a size whose unit
\* index k (0 = B, ..., 5 = PB) has n div 1024^k < 1024 when k < 5 and
\* n >= 1024^k when k > 0; for a negative or non-integer n it returns
\* "Unknown".  (n div 1024^k < 1024 iff n has at most k + 1 digits, and
\* n >= 1024^k iff it has at least k + 1.)  A bool, which Python counts as
\* an int, is left to neither case.
HumanBytesTotal ==
    (ret.done /\ call.fn = "human_bytes" /\ call.arg.t # "bool") =>
        /\ ~ret.raised
        /\ IF call.arg.t = "int"
           THEN /\ ret.value.t = "sizestr"
                /\ LET k == ret.value.v.unit - 1 IN
                   /\ k \in 0..5
                   /\ k < 5 => NumDigits(call.arg) <= k + 1
                   /\ k > 0 => NumDigits(call.arg) >= k + 1
           ELSE ret.value = JStr("Unknown")

\* What holds of human_bytes: the same, for the ints float() can convert
\* (those below 2^1024 - 2^970).
HumanBytesBelowFloatLimit ==
    (ret.done /\ call.fn = "human_bytes" /\ call.arg.t # "bool"
        /\ (call.arg.t = "int" => ~FloatOverflows(call.arg.v)))
    => HumanBytesTotal

\* the JSON value the call's command printed, None when it printed none
CallJson == IF call.outcome.kind = "ok" /\ call.outcome.stdout.fmt = "json"
           THEN call.outcome.stdout.val ELSE None

\* x is a list of dicts
IsListOfDicts(x) == x.t = "list" /\ \A j \in 1..Len(x.v) : x.v[j].t = "dict"

\* the list command's output has a "Devices" sequence of mappings
WellFormedList ==
    /\ CallJson.t = "dict"
    /\ "Devices" \in DOMAIN CallJson.v
    /\ IsListOfDicts(CallJson.v["Devices"])

\* C3: when the list command's parsed output is absent or malformed at the
\* top level (no result, no "Devices" key, not a mapping, or a "Devices" that
\* is not a sequence of mappings) detect_nvme_devices returns an empty list
\* and raises nothing.
DetectToleratesMalformed ==
    (ret.done /\ call.fn = "detect_nvme_devices" /\ ~WellFormedList) =>
        ~ret.raised /\ Len(ret.value) = 0

\* the value of key k of the entry e, or default when e lacks it
Field(e, k, default) == IF k \in DOMAIN e.v THEN e.v[k] ELSE default

\* the record r has the entry e's path and its model, serial and firmware,
\* "Unknown" standing for an absent one
CarriesIdentity(r, e) ==
    /\ r.device = Field(e, "DevicePath", None)
    /\ r.model = Field(e, "ModelNumber", JStr("Unknown"))
    /\ r.serial = Field(e, "SerialNumber", JStr("Unknown"))
    /\ r.firmware = Field(e, "Firmware", JStr("Unknown"))

\* C6 as stated: one record per entry of "Devices", in order, with the
\* entry's identity and a capacity equal to PhysicalSize whenever
\* PhysicalSize is present, and to UsedBytes only when it is absent.
DetectCapacityIsPhysicalSizeWhenPresent ==
    (ret.done /\ call.fn = "detect_nvme_devices" /\ call.which /\ WellFormedList) =>
        LET listed == CallJson.v["Devices"].v IN
        /\ ~ret.raised
        /\ Len(ret.value) = Len(listed)
        /\ \A j \in 1..Len(listed) :
            /\ CarriesIdentity(ret.value[j], listed[j])
            /\ ret.value[j].capacity_bytes =
                IF "PhysicalSize" \in DOMAIN listed[j].v
                THEN listed[j].v["PhysicalSize"]
                ELSE Field(listed[j], "UsedBytes", None)

\* C6 amended: one record per entry of "Devices", in order, with the entry's
\* identity and a capacity equal to PhysicalSize when PhysicalSize is present
\* and truthy (not 0, not null), and otherwise to UsedBytes (None when that
\* is absent too).
DetectCapacityFallsBackWhenFalsy ==
    (ret.done /\ call.fn = "detect_nvme_devices" /\ call.which /\ WellFormedList) =>
        LET listed == CallJson.v["Devices"].v IN
        /\ ~ret.raised
        /\ Len(ret.value) = Len(listed)
        /\ \A j \in 1..Len(listed) :
            /\ CarriesIdentity(ret.value[j], listed[j])
            /\ ret.value[j].capacity_bytes =
                IF "PhysicalSize" \in DOMAIN listed[j].v
                    /\ listed[j].v["PhysicalSize"] \notin {Small(0), None}
                THEN listed[j].v["PhysicalSize"]
                ELSE Field(listed[j], "UsedBytes", None)

\* C6 witness: two entries were listed, the first with a PhysicalSize of 0
\* and a UsedBytes, the second with a PhysicalSize and no SerialNumber; the
\* records came back in that order.
DetectFallbackSeen ==
    /\ ret.done /\ call.fn = "detect_nvme_devices" /\ call.which /\ WellFormedList
    /\ LET listed == CallJson.v["Devices"].v IN
       /\ Len(listed) = 2 /\ Len(ret.value) = 2
       /\ Field(listed[1], "PhysicalSize", None) = Small(0)
       /\ "UsedBytes" \in DOMAIN listed[1].v
       /\ ret.value[1].capacity_bytes = Small(500)
       /\ Field(listed[2], "PhysicalSize", None) = Small(1000)
       /\ "SerialNumber" \notin DOMAIN listed[2].v
       /\ ret.value[2].capacity_bytes = Small(1000)
       /\ ret.value[2].serial = JStr("Unknown")

\* the fw-log command's output has a "fw_log" list
HasFwList ==
    /\ CallJson.t = "dict"
    /\ "fw_log" \in DOMAIN CallJson.v
    /\ CallJson.v["fw_log"].t = "list"

\* the indexes (from 1) of the dicts of the list l
DictPlaces(l) == {p \in 1..Len(l) : l[p].t = "dict"}

\* the slot r has the revision, valid and active of the entry e, "Unknown"
\* standing for an absent one
CarriesSlot(r, e) ==
    /\ r.revision = Field(e, "revision", JStr("Unknown"))
    /\ r.valid = Field(e, "valid", JStr("Unknown"))
    /\ r.active = Field(e, "active", JStr("Unknown"))

\* C1 as stated: when "fw_log" is a list get_fw_log returns one slot per
\* dict entry, in source order, and the slots are numbered 1, 2, ..., k: an
\* entry that is no dict does not consume a number.
FwSlotsNumberedConsecutively ==
    (ret.done /\ call.fn = "get_fw_log" /\ HasFwList) =>
        LET l == CallJson.v["fw_log"].v IN
        /\ ~ret.raised
        /\ Len(ret.value) = Cardinality(DictPlaces(l))
        /\ \A p \in DictPlaces(l) :
            LET j == Cardinality({q \in DictPlaces(l) : q <= p}) IN
            /\ CarriesSlot(ret.value[j], l[p])
            /\ ret.value[j].slot = Small(j)

\* C1 amended: when "fw_log" is a list get_fw_log returns one slot per dict
\* entry, in source order, and each slot's number is the 1-based place of its
\* entry in the source list: an entry that is no dict is skipped and does
\* consume a number.
FwSlotsNumberedBySourcePlace ==
    (ret.done /\ call.fn = "get_fw_log" /\ HasFwList) =>
        LET l == CallJson.v["fw_log"].v IN
        /\ ~ret.raised
        /\ Len(ret.value) = Cardinality(DictPlaces(l))
        /\ \A p \in DictPlaces(l) :
            LET j == Cardinality({q \in DictPlaces(l) : q <= p}) IN
            /\ CarriesSlot(ret.value[j], l[p])
            /\ ret.value[j].slot = Small(p)

\* C1 witness: get_fw_log returned for [record, "garbage", record]: two
\* slots, numbered 1 and 3.
FwGarbageSkipped ==
    /\ ret.done /\ call.fn = "get_fw_log" /\ HasFwList
    /\ LET l == CallJson.v["fw_log"].v IN
       /\ Len(l) = 3 /\ DictPlaces(l) = {1, 3}
       /\ l[2] = JStr("garbage")
       /\ l[3] = JDict([revision |-> JStr("2.0")])
    /\ Len(ret.value) = 2
    /\ ret.value[1].slot = Small(1)
    /\ ret.value[2].slot = Small(3)
    /\ ret.value[2].revision = JStr("2.0")

(***************************************************************************)
(* Printers (lines 90-137).  A section is the lines one part of            *)
(* print_device_info prints, and whether an exception ended it.            *)
(***************************************************************************)
\* the lines were printed and the function goes on
Prints(lines) == [raised |-> FALSE, printed |-> lines]

\* the lines were printed, then an exception was raised
PrintedThenRaised(lines) == [raised |-> TRUE, printed |-> lines]

\* lines 91-96: the device header
HeaderSection(dev) ==
    LET hb == IF Truthy(dev.capacity_bytes)
              THEN human_bytes(dev.capacity_bytes)
              ELSE [raised |-> FALSE, value |-> JStr("Unknown")]
    IN  IF hb.raised THEN PrintedThenRaised(<<>>)
        ELSE Prints(<<Line("\n=== {dev['device']} ===", <<Fmt(dev.device)>>),
                        Line("Model: {dev['model']}", <<Fmt(dev.model)>>),
                        Line("Serial: {dev['serial']}", <<Fmt(dev.serial)>>),
                        Line("Firmware: {dev['firmware']}", <<Fmt(dev.firmware)>>),
                        Line("Capacity: {cap}", <<hb.value>>)>>)

\* the keys of smart-log that lines 104-112 print, in the order printed
SmartKeys == <<"avail_spare", "spare_thresh", "percent_used", "data_units_read",
               "data_units_written", "power_cycles", "power_on_hours",
               "unsafe_shutdowns", "media_errors", "num_err_log_entries">>

\* whether temp - 273.15 is defined (temp is a number)
IsNumber(x) == x.t \in {"int", "negint", "bool", "float"}

\* the value temp-273.15 formatted with one decimal (its digits are not
\* modelled)
Celsius(temp) == [t |-> "celsius", v |-> temp]

\* line 103
TemperatureLine(temp) ==
    IF Truthy(temp)
    THEN Line("Temperature: {temp} K ({temp-273.15:.1f} C)", <<temp, Celsius(temp)>>)
    ELSE Line("Temperature: Unknown", <<>>)

\* lines 104-112: smart.get(k) is None for an absent key
SmartFieldLines(smart_) ==
    LET g(k) == Fmt(Get(smart_, k, None)) IN
    <<Line("Available Spare: {}% (Threshold: {}%)", <<g("avail_spare"), g("spare_thresh")>>),
      Line("Percentage Used: {}%", <<g("percent_used")>>),
      Line("Data Units Read: {}", <<g("data_units_read")>>),
      Line("Data Units Written: {}", <<g("data_units_written")>>),
      Line("Power Cycles: {}", <<g("power_cycles")>>),
      Line("Power On Hours: {}", <<g("power_on_hours")>>),
      Line("Unsafe Shutdowns: {}", <<g("unsafe_shutdowns")>>),
      Line("Media Errors: {}", <<g("media_errors")>>),
      Line("Error Log Entries: {}", <<g("num_err_log_entries")>>)>>

SmartHeader == Line("\n--- SMART / Health Info ---", <<>>)
ErrorHeader == Line("\n--- Error Log ---", <<>>)
FwHeader == Line("\n--- Firmware Slots ---", <<>>)
StatusHeader == Line("\n--- Device Self-Test Status ---", <<>>)

\* lines 100-112: the health section
SmartSection(smart_) ==
    IF ~Truthy(smart_) THEN Prints(<<>>)
    ELSE IF ~HasGet(smart_) THEN PrintedThenRaised(<<SmartHeader>>)
    ELSE LET temp == Get(smart_, "temperature", None) IN
         IF Truthy(temp) /\ ~IsNumber(temp) THEN PrintedThenRaised(<<SmartHeader>>)
         ELSE Prints(<<SmartHeader, TemperatureLine(temp)>> \o SmartFieldLines(smart_))

\* line 121
ErrorEntryLine(e) ==
    Line("  ErrorCount={}, CmdID={}, Status={}",
         <<Fmt(Get(e, "error_count", None)), Fmt(Get(e, "cid", None)),
           Fmt(Get(e, "status", None))>>)

\* the first index of items that holds no dict, or Len(items) + 1
FirstNoDict(items) ==
    IF \E j \in 1..Len(items) : ~HasGet(items[j])
    THEN CHOOSE j \in 1..Len(items) :
            ~HasGet(items[j]) /\ \A q \in 1..(j - 1) : HasGet(items[q])
    ELSE Len(items) + 1

\* lines 116-123: the error log section
ErrorSection(err_) ==
    IF ~Truthy(err_) THEN Prints(<<>>)
    ELSE IF ~HasGet(err_) THEN PrintedThenRaised(<<ErrorHeader>>)
    ELSE LET entries == Or(Get(err_, "error_log", None), JList(<<>>)) IN
         IF ~Truthy(entries)
         THEN Prints(<<ErrorHeader, Line("  No errors logged.", <<>>)>>)
         ELSE IF IterRaises(entries) THEN PrintedThenRaised(<<ErrorHeader>>)
         ELSE LET items == Iter(entries)
                  stop == FirstNoDict(items)
                  lines == [j \in 1..(stop - 1) |-> ErrorEntryLine(items[j])]
              IN  IF stop <= Len(items)
                  THEN PrintedThenRaised(<<ErrorHeader>> \o lines)
                  ELSE Prints(<<ErrorHeader>> \o lines)

\* line 130
FwSlotLine(s) ==
    Line("  Slot {}: Revision={}, Active={}, Valid={}",
         <<s.slot, Fmt(s.revision), Fmt(s.active), Fmt(s.valid)>>)

\* lines 127-130: the firmware slots section
FwSection(slots) ==
    IF slots = <<>> THEN Prints(<<>>)
    ELSE Prints(<<FwHeader>> \o [j \in 1..Len(slots) |-> FwSlotLine(slots[j])])

\* lines 134-137: the self-test status section
StatusSection(st_) ==
    IF ~Truthy(st_) THEN Prints(<<>>)
    ELSE IF ~HasGet(st_) THEN PrintedThenRaised(<<StatusHeader>>)
    ELSE Prints(<<StatusHeader,
                    Line("Current Operation: {}",
                         <<Fmt(Get(st_, "current_operation", JStr("Unknown")))>>),
                    Line("Last Result: {}", <<Fmt(Get(st_, "result", JStr("Unknown")))>>)>>)

(***************************************************************************)
(* Main (lines 142-158) and the environment of a run.                      *)
(***************************************************************************)
\* choices of --self-test
choices == {JStr("short"), JStr("long")}

\* parse_args that accepts any value of --self-test
parse_args_any(value) == [ok |-> TRUE, self_test |-> value]

\* parser.parse_args(): value is what --self-test was given (None: the flag
\* is absent); a value outside choices ends the program with a usage error
parse_args(value) == [ok |-> value = None \/ value \in choices, self_test |-> value]

\* the line printed when there is no device
NoDevicesLine == Line("No NVMe devices found.", <<>>)

\* line 151
DetectedLine(n) == Line("Detected {len(devices)} NVMe SSD(s).", <<Small(n)>>)

\* lines 155-158 with the self-test started whether or not the flag is given
main_self_test_always(dev, mode, outcome) ==
    LET r == start_self_test(dev.device, mode, outcome) IN
    [printed |-> r.printed, cmds |-> r.cmds]

\* lines 155-158: the self-test of one device, when the flag is given
main_self_test(dev, mode, outcome) ==
    IF Truthy(mode)
    THEN LET r == start_self_test(dev.device, mode, outcome) IN
         [printed |-> r.printed \o
                      (IF Truthy(r.value)
                       THEN <<Line("\nSelf-test command output:\n{result}", <<r.value>>)>>
                       ELSE <<>>),
          cmds |-> r.cmds]
    ELSE [printed |-> <<>>, cmds |-> <<>>]

\* the values --self-test is given in the runs checked
ArgvValues == {None, JStr("short"), JStr("long"), JStr("quick"), JStr("")}

\* entries of "Devices" in the runs checked: one with every key, one with
\* few, one without a path
FullEntry == Entry(EntryKeys, Small(1000))
SparseEntry == JDict([DevicePath |-> Dev1, ModelNumber |-> JStr("Y")])
NoPathEntry == JDict([ModelNumber |-> JStr("X")])

\* a smart-log with every key printed
FullSmart ==
    JDict([temperature |-> Small(300), avail_spare |-> Small(100),
           spare_thresh |-> Small(10), percent_used |-> Small(1),
           data_units_read |-> Small(7), data_units_written |-> Small(8),
           power_cycles |-> Small(9), power_on_hours |-> Small(11),
           unsafe_shutdowns |-> Small(2), media_errors |-> Small(0),
           num_err_log_entries |-> Small(0)])

\* a smart-log with temperature and percent_used only
PartialSmart == JDict([temperature |-> Small(300), percent_used |-> Small(1)])

\* an error-log with one entry
OneError ==
    JDict([error_log |-> JList(<<JDict([error_count |-> Small(3), cid |-> Small(4),
                                        status |-> Small(5)])>>)])

\* a fw-log: [record, "garbage", record]
MixedFw ==
    JDict([fw_log |-> JList(<<JDict([revision |-> JStr("1.0"), valid |-> JBool(TRUE),
                                     active |-> JBool(TRUE)]),
                              JStr("garbage"),
                              JDict([revision |-> JStr("2.0")])>>)])

\* a self-test status with both keys
FullStatus == JDict([current_operation |-> Small(0), result |-> Small(0)])

\* the outcomes of the list command in the runs checked
ListOutcomes ==
    {NonZero, Garbage}
    \cup {OkJson(j) : j \in
            {EmptyDict, JList(<<JStr("x")>>), JDict([Devices |-> None]),
             JDict([Devices |-> JList(<<>>)]),
             JDict([Devices |-> JList(<<FullEntry>>)]),
             JDict([Devices |-> JList(<<NoPathEntry>>)]),
             JDict([Devices |-> JList(<<FullEntry, SparseEntry>>)])}}

\* the outcomes of a command about device: all of those in rich for the first
\* device, those in few for another, TypeError when the path is no str
OutcomesFor(device, rich, few) ==
    IF device.t # "str" THEN {BadArg}
    ELSE IF device = Dev0 THEN rich
    ELSE few

SmartOutcomes(device) ==
    OutcomesFor(device,
        {NonZero, Garbage, OkJson(FullSmart), OkJson(PartialSmart), OkJson(EmptyDict),
         OkJson(JList(<<Small(1)>>)), OkJson(JDict([temperature |-> JStr("hot")]))},
        {NonZero, OkJson(FullSmart)})

ErrorOutcomes(device) ==
    OutcomesFor(device,
        {NonZero, OkJson(OneError), OkJson(JDict([error_log |-> JList(<<>>)])),
         OkJson(JDict([error_log |-> JList(<<Small(1)>>)]))},
        {NonZero, OkJson(OneError)})

FwOutcomes(device) ==
    OutcomesFor(device,
        {NonZero, OkJson(MixedFw), OkJson(JDict([fw_log |-> JList(<<>>)])),
         OkJson(Small(5))},
        {NonZero, OkJson(MixedFw)})

StatusOutcomes(device) ==
    OutcomesFor(device,
        {NonZero, OkJson(FullStatus), OkJson(JDict([result |-> Small(1)])),
         OkJson(JStr("idle"))},
        {NonZero, OkJson(FullStatus)})

StartOutcomes(device) ==
    OutcomesFor(device,
        {NonZero, OkText("\n"), OkText("Short Device self-test started\n")},
        {NonZero, OkText("Short Device self-test started\n")})

\* no command of that kind was issued (for this device)
NoReply == [kind |-> "none", stdout |-> None]

\* the commands of a run
Commands == {"list", "smart", "error", "fw", "status", "start"}

\* the replies when print_device_info is entered: only the list command's
Entering(r) == [c \in Commands |-> IF c = "list" THEN r[c] ELSE NoReply]

NoCall == Call("none", None, TRUE, NotFound)

Init ==
    /\ pc = "parse_args"
    /\ argv \in ArgvValues
    /\ args = None
    /\ installed \in BOOLEAN
    /\ devices = <<>>
    /\ idx = 0
    /\ smart = None /\ err = None /\ fw_slots = <<>> /\ st = None
    /\ reply = [c \in Commands |-> NoReply]
    /\ cmds = <<>>
    /\ out = <<>>
    /\ call = NoCall /\ ret = NoReturn

\* line 145: a value outside choices is a usage error (exit status 2)
ParseArgs ==
    /\ pc = "parse_args"
    /\ LET r == parse_args(argv) IN
       IF r.ok THEN args' = r.self_test /\ pc' = "detect"
       ELSE args' = args /\ pc' = "usage_error"
    /\ UNCHANGED <<argv, installed, devices, idx, smart, err, fw_slots, st,
                   reply, cmds, out, call, ret>>

\* lines 147-151
Detect ==
    /\ pc = "detect"
    /\ \E o \in ListOutcomes :
        LET r == detect_nvme_devices(installed, o) IN
        /\ cmds' = cmds \o r.cmds
        /\ reply' = [reply EXCEPT !["list"] = IF r.cmds = <<>> THEN NoReply ELSE o]
        /\ IF r.raised
           THEN /\ pc' = "crashed"
                /\ out' = out \o r.printed
                /\ UNCHANGED <<devices, idx>>
           ELSE /\ devices' = r.value
                /\ IF r.value = <<>>
                   THEN /\ out' = out \o r.printed \o <<NoDevicesLine>>
                        /\ pc' = "done"
                        /\ idx' = idx
                   ELSE /\ out' = out \o r.printed \o <<DetectedLine(Len(r.value))>>
                        /\ pc' = "header"
                        /\ idx' = 1
    /\ UNCHANGED <<argv, args, installed, smart, err, fw_slots, st, call, ret>>

\* lines 91-96, on entering print_device_info for devices[idx]
PrintHeader ==
    /\ pc = "header"
    /\ LET s == HeaderSection(devices[idx]) IN
       /\ out' = out \o s.printed
       /\ pc' = IF s.raised THEN "crashed" ELSE "smart"
    /\ smart' = None /\ err' = None /\ fw_slots' = <<>> /\ st' = None
    /\ reply' = Entering(reply)
    /\ UNCHANGED <<argv, args, installed, devices, idx, cmds, call, ret>>

\* lines 99-112
QuerySmart ==
    /\ pc = "smart"
    /\ \E o \in SmartOutcomes(devices[idx].device) :
        LET r == get_smart_info(devices[idx].device, o)
            s == SmartSection(r.value)
        IN  /\ cmds' = Append(cmds, SmartCmd(devices[idx].device))
            /\ reply' = [reply EXCEPT !["smart"] = o]
            /\ IF r.raised
               THEN pc' = "crashed" /\ out' = out \o r.printed /\ smart' = smart
               ELSE /\ smart' = r.value
                    /\ out' = out \o r.printed \o s.printed
                    /\ pc' = IF s.raised THEN "crashed" ELSE "error_log"
    /\ UNCHANGED <<argv, args, installed, devices, idx, err, fw_slots, st, call, ret>>

\* lines 115-123
QueryErrorLog ==
    /\ pc = "error_log"
    /\ \E o \in ErrorOutcomes(devices[idx].device) :
        LET r == get_error_log(devices[idx].device, o)
            s == ErrorSection(r.value)
        IN  /\ cmds' = Append(cmds, ErrorCmd(devices[idx].device))
            /\ reply' = [reply EXCEPT !["error"] = o]
            /\ IF r.raised
               THEN pc' = "crashed" /\ out' = out \o r.printed /\ err' = err
               ELSE /\ err' = r.value
                    /\ out' = out \o r.printed \o s.printed
                    /\ pc' = IF s.raised THEN "crashed" ELSE "fw_log"
    /\ UNCHANGED <<argv, args, installed, devices, idx, smart, fw_slots, st, call, ret>>

\* lines 126-130
QueryFwLog ==
    /\ pc = "fw_log"
    /\ \E o \in FwOutcomes(devices[idx].device) :
        LET r == get_fw_log(devices[idx].device, o)
            s == FwSection(r.value)
        IN  /\ cmds' = cmds \o r.cmds
            /\ reply' = [reply EXCEPT !["fw"] = o]
            /\ IF r.raised
               THEN pc' = "crashed" /\ out' = out \o r.printed /\ fw_slots' = fw_slots
               ELSE /\ fw_slots' = r.value
                    /\ out' = out \o r.printed \o s.printed
                    /\ pc' = "status"
    /\ UNCHANGED <<argv, args, installed, devices, idx, smart, err, st, call, ret>>

\* lines 133-137, after which print_device_info returns
QueryStatus ==
    /\ pc = "status"
    /\ \E o \in StatusOutcomes(devices[idx].device) :
        LET r == get_self_test_log(devices[idx].device, o)
            s == StatusSection(r.value)
        IN  /\ cmds' = Append(cmds, StatusCmd(devices[idx].device))
            /\ reply' = [reply EXCEPT !["status"] = o]
            /\ IF r.raised
               THEN pc' = "crashed" /\ out' = out \o r.printed /\ st' = st
               ELSE /\ st' = r.value
                    /\ out' = out \o r.printed \o s.printed
                    /\ pc' = IF s.raised THEN "crashed" ELSE "self_test"
    /\ UNCHANGED <<argv, args, installed, devices, idx, smart, err, fw_slots, call, ret>>

\* lines 155-158, then the next device of the for loop or the end of main
SelfTest ==
    /\ pc = "self_test"
    /\ \E o \in StartOutcomes(devices[idx].device) :
        LET r == main_self_test(devices[idx], args, o) IN
        /\ cmds' = cmds \o r.cmds
        /\ out' = out \o r.printed
        /\ reply' = [reply EXCEPT !["start"] = IF r.cmds = <<>> THEN NoReply ELSE o]
    /\ IF idx < Len(devices)
       THEN pc' = "header" /\ idx' = idx + 1
       ELSE pc' = "done" /\ idx' = idx
    /\ UNCHANGED <<argv, args, installed, devices, smart, err, fw_slots, st, call, ret>>

Next ==
    \/ ParseArgs
    \/ Detect
    \/ PrintHeader
    \/ QuerySmart
    \/ QueryErrorLog
    \/ QueryFwLog
    \/ QueryStatus
    \/ SelfTest

Spec == Init /\ [][Next]_vars

(***************************************************************************)
(* Properties of a run, checked under Spec.                                *)
(***************************************************************************)
\* the device print_device_info is printing
Current == devices[idx].device

\* the telemetry queries of print_device_info
Queries == {"smart", "error", "fw", "status"}

\* the query failed: the command did (not found, non-zero exit status, an
\* argument that is no str) or its output is not JSON
ReplyFailed(o) == o.kind \notin {"ok", "none"} \/ (o.kind = "ok" /\ o.stdout.fmt # "json")

\* the query succeeded with the JSON value j
ReplyJson(o) == o.kind = "ok" /\ o.stdout.fmt = "json"

\* j follows the schema of the query c: a mapping (or null) whose values
\* have the types the report needs
FollowsSchema(c, j) ==
    /\ j.t \in {"dict", "NoneType"}
    /\ j.t = "dict" =>
        CASE c = "smart" ->
                "temperature" \in DOMAIN j.v =>
                    j.v["temperature"].t \in {"int", "float", "NoneType"}
          [] c = "error" ->
                "error_log" \in DOMAIN j.v =>
                    \/ j.v["error_log"].t = "NoneType"
                    \/ IsListOfDicts(j.v["error_log"])
          [] OTHER -> TRUE

\* the query c succeeded with populated data: a mapping with keys, for
\* fw-log one whose "fw_log" lists a slot record
Populated(c, o) ==
    /\ ReplyJson(o)
    /\ FollowsSchema(c, o.stdout.val)
    /\ o.stdout.val.t = "dict"
    /\ DOMAIN o.stdout.val.v # {}
    /\ c = "fw" =>
        /\ "fw_log" \in DOMAIN o.stdout.val.v
        /\ o.stdout.val.v["fw_log"].t = "list"
        /\ DictPlaces(o.stdout.val.v["fw_log"].v) # {}

\* the index in out of the header of the device being printed
LastDeviceHeader ==
    CHOOSE i \in 1..Len(out) :
        /\ out[i].text = "\n=== {dev['device']} ==="
        /\ \A j \in (i + 1)..Len(out) : out[j].text # "\n=== {dev['device']} ==="

\* the first line of the section of the query c
SectionHeader(c) ==
    CASE c = "smart" -> SmartHeader
      [] c = "error" -> ErrorHeader
      [] c = "fw" -> FwHeader
      [] c = "status" -> StatusHeader

\* the report of the device being printed has the section of the query c
Rendered(c) == \E i \in LastDeviceHeader..Len(out) : out[i] = SectionHeader(c)

\* the last n commands issued
LastCmds(n) == SubSeq(cmds, Len(cmds) - n + 1, Len(cmds))

\* C2: whatever queries of a device fail, print_device_info issues all four
\* (smart-log, error-log, fw-log, self-test status) and returns with a report
\* that has the section of every query that succeeded with populated data
\* and lacks the section of every query that failed; it is never a failed
\* query that aborts the run, only a reply that breaks the query's schema.
QueryFailuresIsolated ==
    /\ pc = "self_test" =>
        /\ Len(cmds) >= 4
        /\ LastCmds(4) = <<SmartCmd(Current), ErrorCmd(Current),
                           FwCmd(Current), StatusCmd(Current)>>
        /\ \A c \in Queries :
            /\ reply[c] # NoReply
            /\ ReplyFailed(reply[c]) => ~Rendered(c)
            /\ Populated(c, reply[c]) => Rendered(c)
    /\ (pc = "crashed" /\ idx >= 1) =>
        \E c \in Queries :
            ReplyJson(reply[c]) /\ ~FollowsSchema(c, reply[c].stdout.val)

\* C2 witness: print_device_info returned for a device whose health query
\* succeeded and whose error-log query failed: the health section is there,
\* the error-log section is not, the two later sections are.
ErrorLogFailureIsolated ==
    /\ pc = "self_test"
    /\ Populated("smart", reply["smart"])
    /\ reply["error"] = NonZero
    /\ Populated("fw", reply["fw"])
    /\ Populated("status", reply["status"])
    /\ Rendered("smart") /\ ~Rendered("error") /\ Rendered("fw") /\ Rendered("status")

\* main returned without a device
NoDeviceRun == pc = "done" /\ devices = <<>>

\* C4 as stated: when enumeration yields no device the whole output is the
\* one line "No NVMe devices found." and no telemetry or self-test command
\* is issued.
NoDevicesPrintsOneLine ==
    NoDeviceRun =>
        /\ out = <<NoDevicesLine>>
        /\ \A i \in 1..Len(cmds) : cmds[i] = ListCmd

\* C4 amended: when enumeration yields no device the output ends with the
\* line "No NVMe devices found.", main returns, and no telemetry or self-test
\* command is issued; that line is the whole output when the list command
\* succeeded, and follows exactly one diagnostic line when the tool is
\* missing (the install hint, no command issued) or the list command failed
\* (the "Error running" line).
NoDevicesPrintsDiagnosticThenLine ==
    NoDeviceRun =>
        IF ~installed
        THEN out = <<NotInstalledLine, NoDevicesLine>> /\ cmds = <<>>
        ELSE /\ cmds = <<ListCmd>>
             /\ IF ReplyFailed(reply["list"])
                THEN /\ Len(out) = 2
                     /\ out[1].text = "Error running {cmd}: {e}"
                     /\ out[1].values[1] = JList(ListCmd)
                     /\ out[2] = NoDevicesLine
                ELSE out = <<NoDevicesLine>>

\* C4 witness: the tool is missing and main returned after two lines.
ToolMissingRun ==
    /\ NoDeviceRun /\ ~installed
    /\ out = <<NotInstalledLine, NoDevicesLine>>

\* what the health section shows for each key of SmartKeys, the section
\* being the last eleven lines printed
ShownFor(k) ==
    LET fields == SubSeq(out, Len(out) - 8, Len(out)) IN
    IF k <= 2 THEN fields[1].values[k] ELSE fields[k - 1].values[1]

\* C5: when the health query succeeds with some fields missing, the health
\* section is printed and every missing field is shown as "Unknown".
MissingHealthFieldsShownUnknown ==
    (pc = "error_log" /\ Populated("smart", reply["smart"])) =>
        LET given == DOMAIN reply["smart"].stdout.val.v IN
        /\ Len(out) >= 11
        /\ out[Len(out) - 10] = SmartHeader
        /\ "temperature" \notin given =>
                out[Len(out) - 9] = Line("Temperature: Unknown", <<>>)
        /\ \A k \in 1..Len(SmartKeys) :
                SmartKeys[k] \notin given => ShownFor(k) = JStr("Unknown")

\* c is a self-test start command
IsStart(c) == Len(c) = 5 /\ c[4] = A("-s")

\* the start commands issued so far
Starts == {i \in 1..Len(cmds) : IsStart(cmds[i])}

\* C8: a start command carries test code "1" exactly when --self-test is
\* "short" and "2" exactly when it is "long"; for any other value none is
\* ever issued; with "short" or "long" each device gets one.
TestCodeFollowsMode ==
    /\ \A i \in Starts :
        /\ argv \in {JStr("short"), JStr("long")}
        /\ cmds[i][5] = A("1") <=> argv = JStr("short")
        /\ cmds[i][5] = A("2") <=> argv = JStr("long")
    /\ (pc = "done" /\ argv \in {JStr("short"), JStr("long")}) =>
        Cardinality(Starts) = Len(devices)

\* C8 witness: with --self-test long a run ended after a start command with
\* test code "2".
LongTestStarted ==
    /\ pc = "done" /\ argv = JStr("long")
    /\ \E i \in Starts : cmds[i] = StartCmd(Dev0, "2")

RECURSIVE DeviceCommands(_, _, _)
\* the commands a run issues for the devices from index i on
DeviceCommands(devs, mode, i) ==
    IF i > Len(devs) THEN <<>>
    ELSE LET d == devs[i].device IN
         <<SmartCmd(d), ErrorCmd(d), FwCmd(d), StatusCmd(d)>>
         \o (CASE mode = JStr("short") -> <<StartCmd(d, "1")>>
               [] mode = JStr("long") -> <<StartCmd(d, "2")>>
               [] OTHER -> <<>>)
         \o DeviceCommands(devs, mode, i + 1)

\* the commands of a whole run over devs
RunCommands(devs, mode) == <<ListCmd>> \o DeviceCommands(devs, mode, 1)

\* s is a prefix of t
IsPrefix(s, t) == Len(s) <= Len(t) /\ SubSeq(t, 1, Len(s)) = s

\* C10: in a run with devices the commands issued are one list command,
\* then per device in enumeration order one smart-log, one error-log, one
\* fw-log and one self-test status query, then one start command exactly
\* when --self-test is given: at every moment a prefix of that sequence, and
\* the whole of it when main returns, whatever commands failed.
CommandsInFixedOrder ==
    devices # <<>> =>
        /\ IsPrefix(cmds, RunCommands(devices, args))
        /\ pc = "done" => cmds = RunCommands(devices, args)

\* C10 witness: a run over two devices with --self-test short returned after
\* eleven commands, the start command of the first device and the smart-log
\* query of the second having failed.
TwoDevicesRunWithFailures ==
    /\ pc = "done" /\ Len(devices) = 2 /\ args = JStr("short")
    /\ Len(cmds) = 11
    /\ cmds[6] = StartCmd(Dev0, "1") /\ cmds[7] = SmartCmd(Dev1)
    /\ reply["smart"] = NonZero
    /\ \E i \in 1..Len(out) :
        /\ out[i].text = "Error running {cmd}: {e}"
        /\ out[i].values[1] = JList(StartCmd(Dev0, "1"))

====
